---- MODULE Spec2Model ----
(***************************************************************************)
(* Model of scripts/disable_inactive_users.py: one run of main(), and the *)
(* pure functions it is built from (parse_ts, select_last_login,          *)
(* filter_inactive_users, chunked).                                        *)
(*                                                                         *)
(* Time is counted in ticks of half a day; a timestamp string is the       *)
(* abstract syntax of what it spells (kind, local time, UTC offset).       *)
(***************************************************************************)
EXTENDS Integers, Sequences, FiniteSets, TLC

VARIABLES
    pc,              \* position of the run in main()
    args,            \* the parsed command line (argparse.Namespace)
    now,             \* the clock value read by filter_inactive_users
    resp,            \* the response to GET /v1/users, while fetch_users runs
    users,           \* main: users
    inactive_users,  \* main: inactive_users
    stdout,          \* lines printed to stdout
    stderr,          \* lines printed to stderr
    gen,             \* chunked generator: the next index of range(0, len, size)
    batches,         \* the batches chunked has yielded so far
    calls,           \* the bulk requests issued so far (their entities)
    responses,       \* the status codes observed for them
    exit_code,       \* process exit status, NoExit while running
    prior,           \* in a rerun: what the run before left behind, else NoPrior
    m_pc,            \* map_users.py: position of run_mapping
    m_dry_run,       \* run_mapping: dry_run
    port_users,      \* run_mapping: port_users, None when the fetch failed
    github_users,    \* run_mapping: github_users, None when the fetch failed
    m_next,          \* run_mapping: index of the next gh_user of the loop
    updates,         \* the PATCH requests update_entity has issued
    stats            \* run_mapping: stats

\* the variables of map_users.py
mapvars == <<m_pc, m_dry_run, port_users, github_users, m_next, updates, stats>>

vars == <<pc, args, now, resp, users, inactive_users, stdout, stderr,
          gen, batches, calls, responses, exit_code, prior, mapvars>>

-----------------------------------------------------------------------------
(* Bounds of the model *)

MaxMembers == 2     \* orgMembers entries per user
MaxTime == 1        \* local times spelled by timestamp strings are 0..MaxTime
MaxDays == 1        \* --days-inactive ranges over 0..MaxDays
MaxUsers == 6       \* users in one inventory response
MaxBatch == 3       \* --batch-size ranges up to MaxBatch
TicksPerDay == 2    \* ticks in one day (dt.timedelta(days=1))

-----------------------------------------------------------------------------
(* Python values *)

None == "<None>"
NoExit == -1

\* bool(s) for an optional string
Truthy(s) == s # None /\ s # ""

Min(a, b) == IF a <= b THEN a ELSE b

\* seq[lo:hi] for 0 <= lo
Slice(seq, lo, hi) == SubSeq(seq, lo + 1, Min(hi, Len(seq)))

\* str.lower() on the strings of the model
Lower(s) ==
    CASE s = "Disabled" -> "disabled"
      [] s = "DISABLED" -> "disabled"
      [] s = "Active" -> "active"
      [] s = "A@x" -> "a@x"
      [] s = "A@X" -> "a@x"
      [] OTHER -> s

-----------------------------------------------------------------------------
(* Timestamps *)

\* a lastLoginAt value: absent, "", not ISO-8601, ISO without offset, ISO with offset
TsAbsent == [kind |-> "absent", t |-> 0, off |-> 0]
TsEmpty == [kind |-> "empty", t |-> 0, off |-> 0]
TsBad == [kind |-> "bad", t |-> 0, off |-> 0]
TsNaive(t) == [kind |-> "naive", t |-> t, off |-> 0]
TsAware(t, off) == [kind |-> "aware", t |-> t, off |-> off]

\* an Optional[datetime]: NoDt is None, else an aware datetime (local time, offset)
NoDt == [kind |-> "none", t |-> 0, off |-> 0]
Dt(t, off) == [kind |-> "dt", t |-> t, off |-> off]

\* the instant an aware datetime denotes; datetimes compare by it
Instant(d) == d.t - d.off

parse_ts(ts) ==
    IF ts.kind \in {"absent", "empty"} THEN NoDt
    ELSE IF ts.kind = "naive" THEN Dt(ts.t, 0)
    ELSE IF ts.kind = "aware" THEN Dt(ts.t, ts.off)
    ELSE NoDt

\* the last candidate for the greatest
PyLast(cands) == cands[Len(cands)]

\* max(candidates): the first element no later element exceeds
PyMax(cands) ==
    LET best == CHOOSE i \in 1..Len(cands) :
                    /\ \A j \in 1..Len(cands) : Instant(cands[j]) <= Instant(cands[i])
                    /\ \A j \in 1..(i - 1) : Instant(cands[j]) < Instant(cands[i])
    IN cands[best]

RECURSIVE Candidates(_, _)
\* one pass of `for entry in entries` with the org test of line 159
Candidates(entries, org_id) ==
    IF entries = <<>> THEN <<>>
    ELSE LET entry == Head(entries)
             rest == Candidates(Tail(entries), org_id)
             parsed == parse_ts(entry.lastLoginAt)
         IN IF Truthy(org_id) /\ entry.orgId # org_id THEN rest
            ELSE IF parsed # NoDt THEN <<parsed>> \o rest
            ELSE rest

\* select_last_login with the fallback pass taken whenever the first found nothing
select_last_login_any_org(user, org_id) ==
    LET entries == user.orgMembers
        first == Candidates(entries, org_id)
        candidates == IF first = <<>>
                      THEN first \o Candidates(entries, None)
                      ELSE first
    IN IF candidates # <<>> THEN PyMax(candidates) ELSE NoDt

select_last_login(user, org_id) ==
    LET entries == user.orgMembers
        first == Candidates(entries, org_id)
        candidates == IF first = <<>> /\ ~Truthy(org_id)
                      THEN first \o Candidates(entries, None)
                      ELSE first
    IN IF candidates # <<>> THEN PyMax(candidates) ELSE NoDt

-----------------------------------------------------------------------------
(* Classification *)

Threshold(n, days_inactive) == n - days_inactive * TicksPerDay

PyOr(a, b) == IF Truthy(a) THEN a ELSE b

\* the status test without .lower()
IsDisabledCaseSensitive(user) == PyOr(user.status, "") = "disabled"

IsDisabled(user) == Lower(PyOr(user.status, "")) = "disabled"

\* the threshold test with < for <=
IsInactiveStrict(last_login, threshold) ==
    last_login = NoDt \/ Instant(last_login) < threshold

\* the threshold test with >= for <=
IsInactiveAfter(last_login, threshold) ==
    last_login = NoDt \/ Instant(last_login) >= threshold

IsInactive(last_login, threshold) ==
    last_login = NoDt \/ Instant(last_login) <= threshold

InactivityRecord(user, last_login) ==
    [id |-> PyOr(user.id, user.email), email |-> user.email, last_login |-> last_login]

RECURSIVE Appended(_, _, _)
\* the list `inactive` after the loop of lines 181-192
Appended(us, org_id, threshold) ==
    IF us = <<>> THEN <<>>
    ELSE LET user == Head(us)
             rest == Appended(Tail(us), org_id, threshold)
             last_login == select_last_login(user, org_id)
         IN IF IsDisabled(user) THEN rest
            ELSE IF IsInactive(last_login, threshold)
                 THEN <<InactivityRecord(user, last_login)>> \o rest
            ELSE rest

\* the final test with `is not None` for truthiness
HasIdNotNone(u) == u.id # None

HasId(u) == Truthy(u.id)

filter_inactive_users(us, org_id, days_inactive, n) ==
    SelectSeq(Appended(us, org_id, Threshold(n, days_inactive)), HasId)

-----------------------------------------------------------------------------
(* Reporting and batching *)

SampleSize == 5

\* datetime.isoformat(), or the literal "none"
IsoOrNone(d) == IF d # NoDt THEN [kind |-> "iso", t |-> d.t, off |-> d.off]
                ELSE [kind |-> "literal", t |-> 0, off |-> 0]

FoundLine(total, inactive, days) ==
    [kind |-> "found", total |-> total, inactive |-> inactive, days |-> days]
SampleHeader == [kind |-> "sample_header"]
SampleLine(u) ==
    [kind |-> "sample", id |-> u.id, email |-> PyOr(u.email, "no email"),
     last_login |-> IsoOrNone(u.last_login)]
MoreLine(n) == [kind |-> "more", n |-> n]
DryRunLine == [kind |-> "dry_run"]
BatchLine(n) == [kind |-> "batch", n |-> n]
CompletedLine == [kind |-> "completed"]

\* lines 243-249: the preview of at most SampleSize records
Preview(inactive) ==
    LET sample == Slice(inactive, 0, SampleSize)
    IN <<SampleHeader>> \o [i \in 1..Len(sample) |-> SampleLine(sample[i])]
       \o (IF Len(inactive) > Len(sample)
           THEN <<MoreLine(Len(inactive) - Len(sample))>> ELSE <<>>)

\* the entity named by the e-mail address where there is one
EntityByEmail(u) ==
    [identifier |-> PyOr(u.email, u.id), title |-> PyOr(u.email, u.id),
     status |-> "Disabled", upsert |-> TRUE]

\* one entity of the bulk request body
Entity(u) ==
    [identifier |-> u.id, title |-> PyOr(u.email, u.id),
     status |-> "Disabled", upsert |-> TRUE]

BulkPayload(batch) == [i \in 1..Len(batch) |-> Entity(batch[i])]

\* range(0, stop, step) still has the value i (step # 0)
InRange(i, stop, step) == IF step > 0 THEN i < stop ELSE i > stop

\* the generator chunked(seq, size) at index i of its range: whether it yields
\* again (chunked_has_next), and the slice it yields (chunked_yield)
chunked_has_next(seq, size, i) == InRange(i, Len(seq), size)
\* the slice seq[i : i + size - 1]
chunked_yield_short(seq, size, i) == Slice(seq, i, i + size - 1)

chunked_yield(seq, size, i) == Slice(seq, i, i + size)

-----------------------------------------------------------------------------
(* Responses of the platform *)

NoResp == [status |-> 0, body |-> [kind |-> "none"]]

\* JSON values found under a key of the payload
JAbsent == [kind |-> "absent", items |-> <<>>]
JList(l) == [kind |-> "list", items |-> l]
JObject == [kind |-> "object", items |-> <<>>]     \* a non-empty object

JTruthy(v) == CASE v.kind = "absent" -> FALSE
                [] v.kind = "list" -> v.items # <<>>
                [] OTHER -> TRUE

\* the payload: a JSON array, a JSON object with its "users" and "data" members,
\* or a body that is not JSON
ArrayBody(l) == [kind |-> "array", items |-> l]
ObjectBody(u, d) == [kind |-> "dict", users |-> u, data |-> d]
InvalidBody == [kind |-> "invalid"]

\* fetch_users, lines 131-139: <<"ok", users>>, <<"exit">> for sys.exit(1),
\* <<"raise">> for an exception that main does not catch
fetch_users(r) ==
    IF r.status = 0 THEN <<"raise">>                  \* session.get raised
    ELSE IF r.status # 200 THEN <<"exit">>
    ELSE IF r.body.kind = "invalid" THEN <<"raise">>  \* resp.json()
    ELSE IF r.body.kind = "array" THEN <<"raise">>    \* list has no .get
    ELSE LET data == r.body
             picked == IF JTruthy(data.users) THEN data.users
                       ELSE IF JTruthy(data.data) THEN data.data
                       ELSE [kind |-> "dict", items |-> <<>>]
         IN IF picked.kind # "list" THEN <<"exit">>
            ELSE <<"ok", picked.items>>

\* get_token, lines 114-125, on the responses to the first and the second POST
get_token(r1, r2) ==
    LET r == IF r1.code = 404 THEN r2 ELSE r1
    IN IF r.code # 200 THEN None
       ELSE IF ~Truthy(r.token) THEN None
       ELSE r.token

\* disable_batch with the failure test left out
disable_batch_lenient(code) == IF code = 207 THEN "partial" ELSE "ok"

\* disable_batch, lines 220-224, on the status code of the bulk response
disable_batch(code) ==
    IF code \notin {200, 207} THEN "exit"
    ELSE IF code = 207 THEN "partial"
    ELSE "ok"

-----------------------------------------------------------------------------
(* Inputs *)

SeqsUpTo(S, n) == UNION {[1..k -> S] : k \in 0..n}

Orgs == {"o1", "o2"}
OrgFilters == {None, "o1"}
Days == 0..MaxDays
Nows == {MaxTime, MaxTime + 1}

TsStrings == {TsAbsent, TsBad} \cup {TsNaive(t) : t \in 0..MaxTime}
             \cup {TsAware(MaxTime, 1)}
Members == [orgId : Orgs, lastLoginAt : TsStrings]

\* every user the classifier is checked on
Users == [id : {None, "u1"}, email : {None, "a@x"},
          status : {None, "Active", "Disabled"},
          orgMembers : SeqsUpTo(Members, MaxMembers)]

\* users whose id or email is the empty string
BlankUsers == [id : {None, ""}, email : {"", "a@x"},
               status : {None}, orgMembers : {<<>>}]

\* the users of a whole run: two that are inactive (the second has no id) and
\* one that is already disabled
RunUsers ==
    { [id |-> "u1", email |-> "a@x", status |-> "Active",
       orgMembers |-> <<[orgId |-> "o1", lastLoginAt |-> TsNaive(0)]>>],
      [id |-> None, email |-> "b@x", status |-> None, orgMembers |-> <<>>],
      [id |-> "u3", email |-> None, status |-> "Disabled",
       orgMembers |-> <<[orgId |-> "o1", lastLoginAt |-> TsNaive(0)]>>] }
RunLists == SeqsUpTo(RunUsers, MaxUsers)
ShortLists == SeqsUpTo(RunUsers, 1)
OtherList == <<CHOOSE u \in RunUsers : u.id = "u3">>

BatchSizes == (-1)..MaxBatch

Args(ids, secrets, drys, orgs, days, sizes) ==
    [client_id : ids, client_secret : secrets, dry_run : drys, org_id : orgs,
     days_inactive : days, batch_size : sizes]

\* command lines of a whole run
RunArgs ==
    Args({"cid"}, {"sec"}, BOOLEAN, {None}, {1}, BatchSizes)
    \cup Args({None, "cid"}, {None, "sec"}, {FALSE}, {None}, {1}, {MaxBatch})

\* answers to GET /v1/users; status 0 stands for a request that raised
FetchResponses ==
    {[status |-> 200, body |-> ObjectBody(JList(l), JAbsent)] : l \in RunLists}
    \cup {[status |-> 200, body |-> b] :
            b \in UNION {{ArrayBody(l),
                          ObjectBody(JAbsent, JList(l)),
                          ObjectBody(JList(l), JList(OtherList)),
                          ObjectBody(JList(<<>>), JList(l)),
                          ObjectBody(JObject, JList(l)),
                          ObjectBody(JAbsent, JObject)} : l \in ShortLists}}
    \cup {[status |-> 200, body |-> InvalidBody],
          [status |-> 500, body |-> InvalidBody],
          [status |-> 0, body |-> InvalidBody]}

AuthResponses == [code : {200, 404, 401}, token : {None, "tok"}]

\* answers to the bulk POST; 0 stands for a request that raised
BulkCodes == {200, 207, 500, 0}

\* no run came before this one
NoPrior == [inventory |-> <<>>, now |-> 0, calls |-> <<>>]

\* map_users.py is not running
MapOff ==
    /\ m_pc = "off"
    /\ m_dry_run = FALSE
    /\ port_users = <<>>
    /\ github_users = <<>>
    /\ m_next = 1
    /\ updates = <<>>
    /\ stats = [mapped |-> 0, already_mapped |-> 0, unmatched |-> 0]

\* the identifiers of the entities of the bulk requests cs
Dispatched(cs) ==
    UNION {{cs[k][j].identifier : j \in 1..Len(cs[k])} : k \in 1..Len(cs)}

\* the inventory us once the platform has set status = Disabled on the users
\* that the identifiers ids name
Applied(us, ids) ==
    [k \in 1..Len(us) |->
        IF PyOr(us[k].id, us[k].email) \in ids
        THEN [us[k] EXCEPT !.status = "Disabled"]
        ELSE us[k]]

\* what GET /v1/users may answer: anything in a first run, the inventory the
\* run before left behind in a rerun
Inventories(pr) ==
    IF pr = NoPrior THEN FetchResponses
    ELSE {[status |-> 200, body |-> ObjectBody(JList(pr.inventory), JAbsent)]}

\* what the clock may show: in a rerun it has not gone back
Clock(pr) == IF pr = NoPrior THEN Nows ELSE {n \in Nows : n >= pr.now}

-----------------------------------------------------------------------------
(* One run of main() *)

Init ==
    /\ pc = "Idle"
    /\ args \in RunArgs
    /\ now = 0
    /\ resp = NoResp
    /\ users = <<>>
    /\ inactive_users = <<>>
    /\ stdout = <<>>
    /\ stderr = <<>>
    /\ gen = 0
    /\ batches = <<>>
    /\ calls = <<>>
    /\ responses = <<>>
    /\ exit_code = NoExit
    /\ prior = NoPrior
    /\ MapOff

\* sys.exit(1), or an exception nothing catches: the run ends with status 1
Abort(msg) ==
    /\ pc' = "Aborted"
    /\ exit_code' = 1
    /\ stderr' = Append(stderr, msg)

\* lines 228-234: require the credentials, get the token
Authenticate ==
    /\ pc = "Idle"
    /\ IF ~Truthy(args.client_id) \/ ~Truthy(args.client_secret)
       THEN Abort("missing credential")
       ELSE \E r1, r2 \in AuthResponses :
              IF Truthy(get_token(r1, r2))
              THEN pc' = "Authenticated" /\ UNCHANGED <<exit_code, stderr>>
              ELSE Abort("token")
    /\ UNCHANGED <<prior, mapvars, args, now, resp, users, inactive_users, stdout, gen,
                   batches, calls, responses>>

\* line 236
FetchUsers ==
    /\ pc = "Authenticated"
    /\ \E r \in Inventories(prior) :
         /\ resp' = r
         /\ LET res == fetch_users(r)
            IN IF res[1] = "ok"
               THEN /\ users' = res[2]
                    /\ pc' = "Fetched"
                    /\ UNCHANGED <<exit_code, stderr>>
               ELSE /\ Abort(IF res[1] = "exit" THEN "fetch" ELSE "traceback")
                    /\ UNCHANGED users
    /\ UNCHANGED <<prior, mapvars, args, now, inactive_users, stdout, gen, batches, calls,
                   responses>>

\* line 237
Classify ==
    /\ pc = "Fetched"
    /\ \E n \in Clock(prior) :
         /\ now' = n
         /\ inactive_users' =
              filter_inactive_users(users, args.org_id, args.days_inactive, n)
    /\ pc' = "Classified"
    /\ resp' = NoResp
    /\ UNCHANGED <<prior, mapvars, args, users, stdout, stderr, gen, batches, calls, responses,
                   exit_code>>

\* what lines 239-253 print
ReportLines(us, inactive, days, dry_run) ==
    <<FoundLine(Len(us), Len(inactive), days)>>
    \o (IF inactive = <<>> THEN <<>>
        ELSE Preview(inactive) \o (IF dry_run THEN <<DryRunLine>> ELSE <<>>))

\* Report without the return of the dry run
ReportDryRunDispatches ==
    /\ pc = "Classified"
    /\ stdout' = stdout \o ReportLines(users, inactive_users, args.days_inactive,
                                       args.dry_run)
    /\ IF inactive_users = <<>>
       THEN pc' = "NothingToDo" /\ exit_code' = 0
       ELSE pc' = "Dispatching" /\ UNCHANGED exit_code
    /\ UNCHANGED <<prior, mapvars, args, now, resp, users, inactive_users, stderr, gen, batches,
                   calls, responses>>

\* Report without the return on an empty inactive set
ReportNoEarlyReturn ==
    /\ pc = "Classified"
    /\ stdout' = stdout \o <<FoundLine(Len(users), Len(inactive_users),
                                       args.days_inactive)>>
                        \o Preview(inactive_users)
                        \o (IF args.dry_run THEN <<DryRunLine>> ELSE <<>>)
    /\ IF args.dry_run
       THEN pc' = "DryRunReported" /\ exit_code' = 0
       ELSE pc' = "Dispatching" /\ UNCHANGED exit_code
    /\ UNCHANGED <<prior, mapvars, args, now, resp, users, inactive_users, stderr, gen, batches,
                   calls, responses>>

\* lines 239-253
Report ==
    /\ pc = "Classified"
    /\ stdout' = stdout \o ReportLines(users, inactive_users, args.days_inactive,
                                       args.dry_run)
    /\ IF inactive_users = <<>>
       THEN pc' = "NothingToDo" /\ exit_code' = 0
       ELSE IF args.dry_run
            THEN pc' = "DryRunReported" /\ exit_code' = 0
            ELSE pc' = "Dispatching" /\ UNCHANGED exit_code
    /\ UNCHANGED <<prior, mapvars, args, now, resp, users, inactive_users, stderr, gen, batches,
                   calls, responses>>

\* DispatchBatch that leaves the generator where it is
DispatchBatchAgain ==
    /\ pc = "Dispatching"
    /\ args.batch_size # 0
    /\ chunked_has_next(inactive_users, args.batch_size, gen)
    /\ LET batch == chunked_yield(inactive_users, args.batch_size, gen)
       IN /\ batches' = Append(batches, batch)
          /\ stdout' = Append(stdout, BatchLine(Len(batch)))
          /\ calls' = Append(calls, BulkPayload(batch))
    /\ pc' = "Awaiting"
    /\ UNCHANGED <<prior, mapvars, args, now, resp, users, inactive_users, stderr, responses,
                   exit_code, gen>>

\* lines 255-257 and 207-219: the loop takes the next batch and posts it
DispatchBatch ==
    /\ pc = "Dispatching"
    /\ args.batch_size # 0
    /\ chunked_has_next(inactive_users, args.batch_size, gen)
    /\ LET batch == chunked_yield(inactive_users, args.batch_size, gen)
       IN /\ batches' = Append(batches, batch)
          /\ stdout' = Append(stdout, BatchLine(Len(batch)))
          /\ calls' = Append(calls, BulkPayload(batch))
    /\ gen' = gen + args.batch_size
    /\ pc' = "Awaiting"
    /\ UNCHANGED <<prior, mapvars, args, now, resp, users, inactive_users, stderr, responses,
                   exit_code>>

\* lines 219-224: the answer to the bulk request
BulkResponse ==
    /\ pc = "Awaiting"
    /\ \E code \in BulkCodes :
         IF code = 0 THEN Abort("traceback") /\ UNCHANGED responses
         ELSE /\ responses' = Append(responses, code)
              /\ IF disable_batch(code) = "exit" THEN Abort("bulk")
                 ELSE /\ pc' = "Dispatching"
                      /\ stderr' = IF disable_batch(code) = "partial"
                                   THEN Append(stderr, "partial") ELSE stderr
                      /\ UNCHANGED exit_code
    /\ UNCHANGED <<prior, mapvars, args, now, resp, users, inactive_users, stdout, gen, batches,
                   calls>>

\* range() with a step of 0 raises ValueError when the loop starts
RangeError ==
    /\ pc = "Dispatching"
    /\ args.batch_size = 0
    /\ Abort("traceback")
    /\ UNCHANGED <<prior, mapvars, args, now, resp, users, inactive_users, stdout, gen, batches,
                   calls, responses>>

\* line 258: the generator is exhausted
Complete ==
    /\ pc = "Dispatching"
    /\ args.batch_size # 0
    /\ ~chunked_has_next(inactive_users, args.batch_size, gen)
    /\ stdout' = Append(stdout, CompletedLine)
    /\ pc' = "Completed"
    /\ exit_code' = 0
    /\ UNCHANGED <<prior, mapvars, args, now, resp, users, inactive_users, stderr, gen, batches,
                   calls, responses>>

\* the script is invoked again with the same command line after a run that
\* completed with every batch answered 200, which the platform has applied
Rerun ==
    /\ pc = "Completed"
    /\ prior = NoPrior
    /\ \A k \in 1..Len(responses) : responses[k] = 200
    /\ prior' = [inventory |-> Applied(users, Dispatched(calls)),
                 now |-> now, calls |-> calls]
    /\ pc' = "Idle"
    /\ now' = 0
    /\ resp' = NoResp
    /\ users' = <<>>
    /\ inactive_users' = <<>>
    /\ stdout' = <<>>
    /\ stderr' = <<>>
    /\ gen' = 0
    /\ batches' = <<>>
    /\ calls' = <<>>
    /\ responses' = <<>>
    /\ exit_code' = NoExit
    /\ UNCHANGED <<args, mapvars>>

Next ==
    \/ Authenticate
    \/ FetchUsers
    \/ Classify
    \/ Report
    \/ DispatchBatch
    \/ BulkResponse
    \/ RangeError
    \/ Complete
    \/ Rerun

Spec == Init /\ [][Next]_vars

-----------------------------------------------------------------------------
(* The pure functions on their own *)

\* an inactive user that is in no other set of users
Bystander == CHOOSE u \in RunUsers : u.email = "b@x"

\* inventories the classifier is applied to
FilterLists == {<<>>} \cup {<<u>> : u \in Users}
               \cup {<<u, Bystander>> : u \in Users}
               \cup {<<Bystander, u>> : u \in Users}
               \cup {<<u, Bystander>> : u \in BlankUsers}

InitFilter ==
    /\ pc = "Fetched"
    /\ args \in Args({"cid"}, {"sec"}, {TRUE}, OrgFilters, Days, {MaxBatch})
    /\ users \in FilterLists
    /\ now = 0
    /\ resp = NoResp
    /\ inactive_users = <<>>
    /\ stdout = <<>>
    /\ stderr = <<>>
    /\ gen = 0
    /\ batches = <<>>
    /\ calls = <<>>
    /\ responses = <<>>
    /\ exit_code = NoExit
    /\ prior = NoPrior
    /\ MapOff

SpecFilter == InitFilter /\ [][Classify]_vars

\* the records the model's run users give rise to
RunRecords ==
    { [id |-> "u1", email |-> "a@x", last_login |-> Dt(0, 0)],
      [id |-> "b@x", email |-> "b@x", last_login |-> NoDt] }

InitChunk ==
    /\ pc = "Dispatching"
    /\ args \in Args({"cid"}, {"sec"}, {FALSE}, {None}, {1}, BatchSizes)
    /\ inactive_users \in SeqsUpTo(RunRecords, MaxUsers)
    /\ users = <<>>
    /\ now = 0
    /\ resp = NoResp
    /\ stdout = <<>>
    /\ stderr = <<>>
    /\ gen = 0
    /\ batches = <<>>
    /\ calls = <<>>
    /\ responses = <<>>
    /\ exit_code = NoExit
    /\ prior = NoPrior
    /\ MapOff

NextChunk == DispatchBatch \/ BulkResponse \/ RangeError \/ Complete

SpecChunk == InitChunk /\ [][NextChunk]_vars

-----------------------------------------------------------------------------
(* map_users.py: one run of run_mapping() *)

MaxEntities == 2

USER_BLUEPRINT == "_user"
GITHUB_USER_BLUEPRINT == "githubUser"

\* the variables of disable_inactive_users.py
runvars == <<pc, args, now, resp, users, inactive_users, stdout, stderr,
             gen, batches, calls, responses, exit_code, prior>>

\* identifiers of _user entities: e-mail addresses, two of which differ in case
PortIds == {"a@x", "A@x", "b@x"}

\* what GET /blueprints/_user/entities may return: entities of distinct
\* identifiers
PortUserLists ==
    {l \in SeqsUpTo([identifier : PortIds], MaxEntities) :
        \A i, j \in 1..Len(l) : i # j => l[i] # l[j]}

\* the identifier of the k-th githubUser entity
GhIds == <<"g1", "g2", "g3", "g4">>

\* what GET /blueprints/githubUser/entities may return: the relation 'user' is
\* unset (None) or set, the email property is missing, empty or an address
GithubUserLists ==
    UNION {[1..n -> [user : {None, "b@x"}, email : {None, "", "a@x", "A@X", "z@x"}]]
            : n \in 0..MaxEntities}

\* entity k of the list of relations and emails l
GithubUser(l, k) ==
    [identifier |-> GhIds[k], relations |-> [user |-> l[k].user],
     properties |-> [email |-> l[k].email]]

\* the dict comprehension of line 152: of two identifiers with the same
\* lower-cased form the later one stays
user_map(pus) ==
    [key \in {Lower(pus[i].identifier) : i \in 1..Len(pus)} |->
        LET last == CHOOSE i \in 1..Len(pus) :
                        /\ Lower(pus[i].identifier) = key
                        /\ \A j \in 1..Len(pus) :
                             Lower(pus[j].identifier) = key => j <= i
        IN pus[last].identifier]

\* no entity counts as mapped
IsMappedNever(gh_user) == FALSE

\* the 'user' relation of the entity is set
IsMapped(gh_user) == Truthy(gh_user.relations.user)

\* outcomes of requests.patch: a response, a response raise_for_status rejects
\* (caught in update_entity), an exception of another kind
PatchOutcomes == {"ok", "http_error", "raise"}

InitMapping ==
    /\ pc = "Idle"
    /\ args = CHOOSE a \in RunArgs : a.client_id = "cid" /\ a.batch_size = MaxBatch
                                     /\ ~a.dry_run
    /\ now = 0
    /\ resp = NoResp
    /\ users = <<>>
    /\ inactive_users = <<>>
    /\ stdout = <<>>
    /\ stderr = <<>>
    /\ gen = 0
    /\ batches = <<>>
    /\ calls = <<>>
    /\ responses = <<>>
    /\ exit_code = NoExit
    /\ prior = NoPrior
    /\ m_pc = "Start"
    /\ m_dry_run \in BOOLEAN
    /\ port_users = <<>>
    /\ github_users = <<>>
    /\ m_next = 1
    /\ updates = <<>>
    /\ stats = [mapped |-> 0, already_mapped |-> 0, unmatched |-> 0]

\* PortClient(): without an access token the run exits with status 1
MapAuthenticate ==
    /\ m_pc = "Start"
    /\ \E access_token \in {None, "tok"} :
         m_pc' = IF Truthy(access_token) THEN "Authenticated" ELSE "Exited"
    /\ UNCHANGED <<runvars, m_dry_run, port_users, github_users, m_next,
                   updates, stats>>

FetchPortUsers ==
    /\ m_pc = "Authenticated"
    /\ \E failed \in BOOLEAN :
         IF failed
         THEN m_pc' = "Exited" /\ UNCHANGED port_users
         ELSE /\ m_pc' = "PortUsersFetched"
              /\ \E r \in PortUserLists : port_users' = r
    /\ UNCHANGED <<runvars, m_dry_run, github_users, m_next, updates, stats>>

FetchGithubUsers ==
    /\ m_pc = "PortUsersFetched"
    /\ \E failed \in BOOLEAN :
         IF failed
         THEN m_pc' = "Exited" /\ UNCHANGED github_users
         ELSE /\ m_pc' = "Mapping"
              /\ \E r \in GithubUserLists :
                   github_users' = [k \in 1..Len(r) |-> GithubUser(r, k)]
    /\ UNCHANGED <<runvars, m_dry_run, port_users, m_next, updates, stats>>

\* one iteration of the loop of lines 168-200
MapUser ==
    /\ m_pc = "Mapping"
    /\ m_next <= Len(github_users)
    /\ m_next' = m_next + 1
    /\ LET gh_user == github_users[m_next]
           email == gh_user.properties.email
       IN IF IsMapped(gh_user)
          THEN /\ stats' = [stats EXCEPT !.already_mapped = @ + 1]
               /\ UNCHANGED <<m_pc, updates>>
          ELSE IF ~Truthy(email)
          THEN /\ stats' = [stats EXCEPT !.unmatched = @ + 1]
               /\ UNCHANGED <<m_pc, updates>>
          ELSE IF Lower(email) \in DOMAIN user_map(port_users)
          THEN /\ stats' = [stats EXCEPT !.mapped = @ + 1]
               /\ IF m_dry_run
                  THEN UNCHANGED <<m_pc, updates>>
                  ELSE /\ updates' = Append(updates,
                              [blueprint_identifier |-> GITHUB_USER_BLUEPRINT,
                               entity_identifier |-> gh_user.identifier,
                               properties |-> <<>>,
                               relations |->
                                   [user |-> user_map(port_users)[Lower(email)]]])
                       /\ \E outcome \in PatchOutcomes :
                            m_pc' = IF outcome = "raise" THEN "Crashed" ELSE m_pc
          ELSE /\ stats' = [stats EXCEPT !.unmatched = @ + 1]
               /\ UNCHANGED <<m_pc, updates>>
    /\ UNCHANGED <<runvars, m_dry_run, port_users, github_users>>

\* the summary after the loop
MapSummary ==
    /\ m_pc = "Mapping"
    /\ m_next > Len(github_users)
    /\ m_pc' = "Done"
    /\ UNCHANGED <<runvars, m_dry_run, port_users, github_users, m_next,
                   updates, stats>>

NextMapping ==
    \/ MapAuthenticate
    \/ FetchPortUsers
    \/ FetchGithubUsers
    \/ MapUser
    \/ MapSummary

SpecMapping == InitMapping /\ [][NextMapping]_vars

-----------------------------------------------------------------------------
(* Vocabulary of the properties *)

\* filter_inactive_users has returned
FilterDone == pc \notin {"Idle", "Authenticated", "Fetched"}

\* r is the record of user u
RecordOf(u, r) ==
    /\ r.id = (IF u.id \notin {None, ""} THEN u.id ELSE u.email)
    /\ r.email = u.email

\* the output holds a record of user u
Included(u) == \E i \in 1..Len(inactive_users) : RecordOf(u, inactive_users[i])

HasIdOrEmail(u) == u.id \notin {None, ""} \/ u.email \notin {None, ""}

\* the memberships select_last_login is to look at
Applicable(u, org_id) ==
    {k \in 1..Len(u.orgMembers) :
        org_id = None \/ u.orgMembers[k].orgId = org_id}

Parseable(ts) == ts.kind \in {"naive", "aware"}

RECURSIVE IsSubSeq(_, _)
\* a is b with some elements left out
IsSubSeq(a, b) ==
    IF a = <<>> THEN TRUE
    ELSE IF b = <<>> THEN FALSE
    ELSE IF Head(a) = Head(b) THEN IsSubSeq(Tail(a), Tail(b))
    ELSE IsSubSeq(a, Tail(b))

RECURSIVE Concat(_)
Concat(ss) == IF ss = <<>> THEN <<>> ELSE Head(ss) \o Concat(Tail(ss))

Ceil(a, b) == (a + b - 1) \div b

-----------------------------------------------------------------------------
(* Properties *)

\* C1: filter_inactive_users never returns a record of a user whose status is
\* Disabled, whatever the user's lastLoginAt values, the org filter and the
\* threshold are.
C1_DisabledNeverReturned ==
    FilterDone =>
        \A k \in 1..Len(users) :
            users[k].status = "Disabled" => ~Included(users[k])

\* a Disabled user whose only login is at or before the threshold was classified
C1_Witness ==
    /\ pc = "Classified"
    /\ \E k \in 1..Len(users) :
         /\ users[k].status = "Disabled"
         /\ HasIdOrEmail(users[k])
         /\ select_last_login(users[k], args.org_id) # NoDt
         /\ Instant(select_last_login(users[k], args.org_id))
              < now - args.days_inactive * TicksPerDay

C3_NoLoginIsInactive ==
    /\ pc = "Classified" => exit_code = NoExit /\ stderr = <<>>
    /\ FilterDone =>
          \A k \in 1..Len(users) :
              LET u == users[k]
              IN (/\ u.status # "Disabled"
                  /\ \A m \in Applicable(u, args.org_id) :
                       ~Parseable(u.orgMembers[m].lastLoginAt)) =>
                   /\ \E i \in 1..Len(Appended(users, args.org_id,
                                               now - args.days_inactive * TicksPerDay)) :
                        LET r == Appended(users, args.org_id,
                                          now - args.days_inactive * TicksPerDay)[i]
                        IN RecordOf(u, r) /\ r.last_login = NoDt
                   /\ HasIdOrEmail(u) =>
                        \E i \in 1..Len(inactive_users) :
                            /\ RecordOf(u, inactive_users[i])
                            /\ inactive_users[i].last_login = NoDt

\* the filter's org matches no membership of a user whose other org has a login
\* after the threshold, and the user was returned
C3_Witness ==
    /\ pc = "Classified"
    /\ args.org_id # None
    /\ \E k \in 1..Len(users) :
         LET u == users[k]
         IN /\ u.status # "Disabled"
            /\ Applicable(u, args.org_id) = {}
            /\ \E m \in 1..Len(u.orgMembers) :
                 /\ Parseable(u.orgMembers[m].lastLoginAt)
                 /\ u.orgMembers[m].lastLoginAt.t - u.orgMembers[m].lastLoginAt.off
                      > now - args.days_inactive * TicksPerDay
            /\ Included(u)

\* C4 as stated: the users inactive under thresholdDays = d1 are inactive under
\* every d2 >= d1.
C4_RaisingKeepsInactive ==
    FilterDone =>
        \A d2 \in Days :
            d2 >= args.days_inactive =>
                IsSubSeq(inactive_users,
                         filter_inactive_users(users, args.org_id, d2, now))

\* C4, amended: the users inactive under thresholdDays = d2 are inactive under
\* every d1 <= d2, so raising the threshold never moves an active user into the
\* inactive set.
C4_LoweringKeepsInactive ==
    FilterDone =>
        \A d1 \in Days :
            d1 <= args.days_inactive =>
                IsSubSeq(inactive_users,
                         filter_inactive_users(users, args.org_id, d1, now))

\* a user is inactive under a threshold and active under a higher one
C4_Witness ==
    /\ pc = "Classified"
    /\ inactive_users = <<>>
    /\ \E d1 \in Days :
         /\ d1 < args.days_inactive
         /\ filter_inactive_users(users, args.org_id, d1, now) # <<>>

\* C5: for a batch size n >= 1, chunked yields ceil(|records| / n) batches, all
\* but the last of exactly n records, none empty or longer than n, and the
\* batches in order are the records; while it runs, they are a prefix of them.
C5_ChunksPartitionRecords ==
    args.batch_size >= 1 =>
        /\ \A k \in 1..Len(batches) :
             /\ Len(batches[k]) >= 1
             /\ Len(batches[k]) <= args.batch_size
             /\ k < Len(batches) => Len(batches[k]) = args.batch_size
        /\ Concat(batches) = SubSeq(inactive_users, 1, Len(Concat(batches)))
        /\ \A k \in 1..Len(batches) :
             Len(batches) < Ceil(Len(inactive_users), args.batch_size) =>
                 Len(batches[k]) = args.batch_size
        /\ pc = "Completed" =>
             /\ Len(batches) = Ceil(Len(inactive_users), args.batch_size)
             /\ Concat(batches) = inactive_users

\* five records were cut into batches of 3 and 2
C5_Witness ==
    /\ pc = "Completed"
    /\ args.batch_size = 3
    /\ Len(inactive_users) = 5
    /\ Len(batches) = 2
    /\ Len(batches[2]) = 2

\* C6: in a dry run no bulk request is ever issued, and what the run has printed
\* when it ends is the count of the fetched users, the count of the classified
\* inactive users, the first SampleSize of their records and the count of the
\* records not shown.
C6_DryRunReportsOnly ==
    args.dry_run =>
        /\ calls = <<>> /\ responses = <<>> /\ batches = <<>>
        /\ pc \in {"NothingToDo", "DryRunReported"} =>
             LET found == filter_inactive_users(users, args.org_id,
                                                args.days_inactive, now)
                 shown == IF Len(found) <= SampleSize THEN Len(found) ELSE SampleSize
                 hidden == Len(found) - shown
             IN /\ stdout[1] = [kind |-> "found", total |-> Len(users),
                                inactive |-> Len(found), days |-> args.days_inactive]
                /\ Len(stdout) = IF found = <<>> THEN 1
                                 ELSE 2 + shown + (IF hidden > 0 THEN 1 ELSE 0) + 1
                /\ \A i \in 1..shown :
                     /\ found # <<>>
                     /\ stdout[2 + i].kind = "sample"
                     /\ stdout[2 + i].id = found[i].id
                     /\ stdout[2 + i].email =
                          (IF found[i].email \in {None, ""} THEN "no email"
                           ELSE found[i].email)
                     /\ (stdout[2 + i].last_login.kind = "literal")
                          <=> (found[i].last_login = NoDt)
                     /\ stdout[2 + i].last_login.t = found[i].last_login.t
                     /\ stdout[2 + i].last_login.off = found[i].last_login.off
                /\ hidden > 0 => stdout[3 + shown] = [kind |-> "more", n |-> hidden]
                /\ found # <<>> => stdout[Len(stdout)] = [kind |-> "dry_run"]

\* a dry run over six inactive users and no other has ended
C6_Witness ==
    /\ args.dry_run
    /\ pc = "DryRunReported"
    /\ Len(inactive_users) = SampleSize + 1
    /\ \E i \in 1..Len(stdout) : stdout[i].kind = "more"

\* C7: a bad response (neither 200 nor 207) is the last thing the run sees: it
\* ends with exit code 1 and no later batch is sent; after a 200 or 207 the run
\* goes on, so that a run that ends with every batch answered 200 or 207 has
\* sent every batch and exits 0; every request that was sent only disables
\* (nothing is rolled back).
C7_ResponsePolicy ==
    LET Good(c) == c \in {200, 207}
        n == Len(responses)
    IN /\ \A k \in 1..(n - 1) : Good(responses[k])
       /\ (n > 0 /\ ~Good(responses[n])) =>
            pc = "Aborted" /\ exit_code = 1 /\ Len(calls) = n
       /\ (n > 0 /\ Good(responses[n]) /\ Len(calls) = n) =>
            pc \in {"Dispatching", "Completed"}
       /\ (pc = "Completed" /\ args.batch_size >= 1) =>
            /\ exit_code = 0
            /\ Len(calls) = Ceil(Len(inactive_users), args.batch_size)
            /\ n = Len(calls)
            /\ \A k \in 1..n : Good(responses[k])
       /\ (pc \in {"Aborted", "Completed"} /\ calls # <<>> /\ n = Len(calls)
           /\ \A k \in 1..n : Good(responses[k])) => exit_code = 0
       /\ \A k \in 1..Len(calls) : \A j \in 1..Len(calls[k]) :
            calls[k][j].status = "Disabled" /\ calls[k][j].upsert

\* the second of three batches was answered 207 and the run completed
C7_Witness ==
    /\ pc = "Completed"
    /\ exit_code = 0
    /\ responses = <<200, 207, 200>>

\* C8: a bulk request is sent only when every earlier one has been answered, so
\* at most one is in flight; the k-th request carries the k-th batch of the
\* inactive users, and no batch is sent twice.
C8_SequentialDispatch ==
    /\ [](/\ Len(calls) - Len(responses) \in {0, 1}
          /\ Len(calls) > Len(responses) => pc \in {"Awaiting", "Aborted"}
          /\ args.batch_size < 1 => calls = <<>>
          /\ args.batch_size >= 1 =>
               /\ Len(calls) <= Ceil(Len(inactive_users), args.batch_size)
               /\ \A k \in 1..Len(calls) :
                    /\ Len(calls[k]) =
                         Min(args.batch_size,
                             Len(inactive_users) - (k - 1) * args.batch_size)
                    /\ \A j \in 1..Len(calls[k]) :
                         calls[k][j].identifier =
                           inactive_users[(k - 1) * args.batch_size + j].id)
    /\ [][(calls' # calls /\ prior' = prior) =>
            /\ Len(responses) = Len(calls)
            /\ Len(calls') = Len(calls) + 1
            /\ SubSeq(calls', 1, Len(calls)) = calls]_vars

\* the third batch is in flight after two answers
C8_Witness ==
    /\ pc = "Awaiting"
    /\ Len(calls) = 3
    /\ responses = <<207, 200>>

\* the state of the run in the terms of the run's state machine
RunState == IF pc = "Awaiting" THEN "Dispatching" ELSE pc

Terminal == {"NothingToDo", "DryRunReported", "Completed", "Aborted"}

\* the steps of the run's state machine; no state can be reached from itself
Steps ==
    { <<"Idle", "Authenticated">>, <<"Authenticated", "Fetched">>,
      <<"Fetched", "Classified">>, <<"Classified", "NothingToDo">>,
      <<"Classified", "DryRunReported">>, <<"Classified", "Dispatching">>,
      <<"Dispatching", "Completed">> }
    \cup { <<st, "Aborted">> :
             st \in {"Idle", "Authenticated", "Fetched", "Classified", "Dispatching"} }

Printed(line) == \E i \in 1..Len(stdout) : stdout[i] = line

\* C9 as stated: a run that ends without a fatal error has ended as a dry run
\* that emitted its report or as a dispatching run that emitted the completion
\* marker.
C9_EndsReportedOrCompleted ==
    exit_code = 0 =>
        \/ args.dry_run /\ Printed([kind |-> "dry_run"])
        \/ ~args.dry_run /\ Printed([kind |-> "completed"])

\* C9, amended: the run goes Idle, Authenticated, Fetched, Classified and from
\* there ends at once when no user is inactive (exit 0 after the count line,
\* with neither the dry-run notice nor the completion marker), ends as
\* DryRunReported in a dry run, or goes through Dispatching to Completed; a
\* fatal error leads from where it occurs directly to Aborted (exit 1); no state
\* is skipped or entered twice, and nothing follows a terminal state.
C9_RunStateMachine ==
    /\ [](/\ exit_code = 0 <=> pc \in {"NothingToDo", "DryRunReported", "Completed"}
          /\ exit_code = 1 <=> pc = "Aborted"
          /\ (\E i \in 1..Len(stderr) : stderr[i] # "partial") <=> pc = "Aborted"
          /\ pc = "NothingToDo" =>
               /\ inactive_users = <<>>
               /\ Len(stdout) = 1 /\ stdout[1].kind = "found"
          /\ pc = "DryRunReported" =>
               /\ args.dry_run /\ inactive_users # <<>>
               /\ stdout[Len(stdout)] = [kind |-> "dry_run"]
               /\ ~Printed([kind |-> "completed"])
          /\ pc = "Completed" =>
               /\ ~args.dry_run /\ inactive_users # <<>>
               /\ stdout[Len(stdout)] = [kind |-> "completed"]
               /\ ~Printed([kind |-> "dry_run"]))
    /\ [][prior' = prior =>
            /\ pc \notin Terminal
            /\ RunState' # RunState => <<RunState, RunState'>> \in Steps]_vars

\* a run that is no dry run found users, none of them inactive, and ended
C9_Witness ==
    /\ pc = "NothingToDo"
    /\ ~args.dry_run
    /\ users # <<>>
    /\ exit_code = 0

\* the list the envelope holds according to the claim: under "users", else under
\* "data", else the payload itself
ClaimedList(body) ==
    IF body.kind = "dict" /\ body.users.kind = "list" THEN <<TRUE, body.users.items>>
    ELSE IF body.kind = "dict" /\ body.data.kind = "list" THEN <<TRUE, body.data.items>>
    ELSE IF body.kind = "array" THEN <<TRUE, body.items>>
    ELSE <<FALSE, <<>>>>

\* C10: a 200 response whose user list is under "users", else under "data", else
\* is the payload itself is accepted and yields that list, an empty one too; any
\* other response ends the run before anything is classified or sent.
C10_TolerantEnvelope ==
    resp # NoResp =>
        IF resp.status = 200 /\ ClaimedList(resp.body)[1]
        THEN pc = "Fetched" /\ users = ClaimedList(resp.body)[2]
        ELSE /\ pc = "Aborted" /\ exit_code = 1
             /\ inactive_users = <<>> /\ stdout = <<>> /\ calls = <<>>

\* the run at hand is the second one, and the first one dispatched its batches
AfterDispatch == prior # NoPrior /\ prior.calls # <<>>

\* C11: after a run that dispatched its batches, every one answered 200 and
\* applied by the platform, a second run over the resulting inventory with the
\* same now, threshold and org filter classifies no user as inactive, ends right
\* after the count line and issues no mutation call.
C11_RerunConverges ==
    AfterDispatch =>
        /\ filter_inactive_users(prior.inventory, args.org_id,
                                 args.days_inactive, prior.now) = <<>>
        /\ now = prior.now =>
             /\ users = prior.inventory
             /\ inactive_users = <<>>
             /\ pc \in {"Classified", "NothingToDo"}
        /\ pc = "NothingToDo" /\ now = prior.now => exit_code = 0
        /\ now = prior.now => calls = <<>>

\* the second run ended with nothing to do over an inventory in which the first
\* run's users are disabled now
C11_Witness ==
    /\ AfterDispatch
    /\ now = prior.now
    /\ pc = "NothingToDo"
    /\ Len(prior.calls) >= 2
    /\ \E k \in 1..Len(users) : users[k].id = "u1" /\ users[k].status = "Disabled"
    /\ \E k \in 1..Len(users) : users[k].id = None /\ users[k].status = "Disabled"

\* C12: every record filter_inactive_users returns has a non-empty id, which is
\* the user's id or, when that is missing, the user's email, so that every entity
\* of a bulk request has a non-empty identifier; a user with neither id nor email
\* yields no record and no error, and nothing else is dropped.
C12_RecordsHaveIds ==
    /\ pc = "Classified" => exit_code = NoExit /\ stderr = <<>>
    /\ FilterDone =>
         LET appended == Appended(users, args.org_id,
                                  now - args.days_inactive * TicksPerDay)
         IN /\ \A i \in 1..Len(inactive_users) :
                 LET r == inactive_users[i]
                 IN /\ r.id \notin {None, ""}
                    /\ Entity(r).identifier = r.id
                    /\ \E k \in 1..Len(users) :
                         HasIdOrEmail(users[k]) /\ RecordOf(users[k], r)
            /\ \A k \in 1..Len(users) :
                 ~HasIdOrEmail(users[k]) =>
                     \A i \in 1..Len(inactive_users) :
                         inactive_users[i].id # users[k].id
            /\ Len(inactive_users) =
                 Cardinality({i \in 1..Len(appended) : appended[i].id \notin {None, ""}})
            /\ IsSubSeq(inactive_users, appended)

\* a user whose id and email are both empty strings was dropped without an error,
\* and the user after it was returned under its email
C12_Witness ==
    /\ pc = "Classified"
    /\ exit_code = NoExit
    /\ Len(users) = 2
    /\ users[1].id = "" /\ users[1].email = ""
    /\ Len(inactive_users) = 1
    /\ inactive_users[1].id = "b@x"

\* the entities run_mapping has been through
Visited == 1..Min(m_next - 1, Len(github_users))

\* C13: run_mapping issues an update for a githubUser entity only when the run
\* is no dry run, the entity's 'user' relation is unset and the entity's
\* lower-cased email is the lower-cased identifier of some _user entity; the
\* relation written is the identifier of such a _user entity, and no entity is
\* updated twice.
C13_UpdateOnlyOnMatch ==
    /\ m_dry_run => updates = <<>>
    /\ \A j \in 1..Len(updates) :
         LET up == updates[j]
         IN /\ up.blueprint_identifier = "githubUser"
            /\ \E k \in Visited :
                 LET g == github_users[k]
                 IN /\ g.identifier = up.entity_identifier
                    /\ g.relations.user \in {None, ""}
                    /\ g.properties.email \notin {None, ""}
                    /\ \E p \in 1..Len(port_users) :
                         /\ Lower(port_users[p].identifier) = Lower(g.properties.email)
                         /\ up.relations.user = port_users[p].identifier
            /\ \A i \in 1..Len(updates) :
                 i # j => updates[i].entity_identifier # up.entity_identifier

\* a run that is no dry run went through an entity that was mapped already and
\* one whose email differs in case from two _user identifiers, and updated the
\* second with the later of the two
C13_Witness ==
    /\ m_pc = "Done"
    /\ ~m_dry_run
    /\ Len(port_users) = 2
    /\ port_users[1].identifier = "a@x" /\ port_users[2].identifier = "A@x"
    /\ Len(github_users) = 2
    /\ github_users[1].relations.user = "b@x"
    /\ github_users[1].properties.email = "a@x"
    /\ github_users[2].properties.email = "A@X"
    /\ Len(updates) = 1
    /\ updates[1].entity_identifier = "g2"
    /\ updates[1].relations.user = "A@x"

\* the instant the timestamp string ts denotes, a string without offset read as UTC
InstantOf(ts) == IF ts.kind = "naive" THEN ts.t ELSE ts.t - ts.off

\* the candidate memberships of u that carry a parseable timestamp
ParseableCandidates(u, org_id) ==
    {m \in Applicable(u, org_id) : Parseable(u.orgMembers[m].lastLoginAt)}

\* C14: select_last_login returns the latest of the parseable lastLoginAt values
\* of the candidate memberships, which are those of the filter's org when a
\* filter is set and all of them when none is; missing and unparseable values
\* are passed over without an error, and the result is absent exactly when no
\* candidate has a parseable value. The records carry that result.
C14_LatestParseableCandidate ==
    /\ pc = "Classified" => exit_code = NoExit /\ stderr = <<>>
    /\ FilterDone =>
         /\ \A k \in 1..Len(users) :
              LET u == users[k]
                  last_login == select_last_login(u, args.org_id)
                  cands == ParseableCandidates(u, args.org_id)
              IN /\ last_login = NoDt <=> cands = {}
                 /\ cands # {} =>
                      /\ \E m \in cands :
                           LET ts == u.orgMembers[m].lastLoginAt
                           IN /\ InstantOf(ts) = Instant(last_login)
                              /\ last_login.t = ts.t
                      /\ \A m \in cands :
                           InstantOf(u.orgMembers[m].lastLoginAt) <= Instant(last_login)
         /\ \A i \in 1..Len(inactive_users) :
              \E k \in 1..Len(users) :
                  /\ RecordOf(users[k], inactive_users[i])
                  /\ inactive_users[i].last_login =
                         select_last_login(users[k], args.org_id)

\* with the filter on o1, a user whose later login is in o2 was returned with
\* the earlier login in o1
C14_Witness ==
    /\ pc = "Classified"
    /\ args.org_id = "o1"
    /\ Len(users) = 1
    /\ users[1].orgMembers = <<[orgId |-> "o2", lastLoginAt |-> TsNaive(MaxTime)],
                               [orgId |-> "o1", lastLoginAt |-> TsNaive(0)]>>
    /\ Len(inactive_users) = 1
    /\ inactive_users[1].last_login = Dt(0, 0)

\* classification is over, came out empty, and the run has not died
NoneInactive ==
    /\ pc \notin {"Idle", "Authenticated", "Fetched", "Aborted"}
    /\ inactive_users = <<>>

\* C15: when no user is classified inactive the run prints the count line and
\* ends with exit code 0 as its next step, dry run or not; it issues no bulk
\* request and prints neither the preview nor the dry-run notice nor the
\* completion marker, and nothing follows.
C15_EmptySetEndsRun ==
    /\ [](NoneInactive =>
            /\ pc \in {"Classified", "NothingToDo"}
            /\ calls = <<>> /\ batches = <<>> /\ responses = <<>>
            /\ stderr = <<>>
            /\ \A i \in 1..Len(stdout) : stdout[i].kind = "found"
            /\ pc = "Classified" => stdout = <<>> /\ exit_code = NoExit
            /\ pc = "NothingToDo" =>
                 /\ exit_code = 0
                 /\ stdout = <<[kind |-> "found", total |-> Len(users),
                                inactive |-> 0, days |-> args.days_inactive]>>)
    /\ [][/\ (pc = "Classified" /\ inactive_users = <<>>) =>
                /\ pc' = "NothingToDo"
                /\ exit_code' = 0
                /\ Len(stdout') = 1
                /\ calls' = <<>>
          /\ pc # "NothingToDo"]_vars

\* a dry run found users, none of them inactive, and ended after the count line
C15_Witness ==
    /\ pc = "NothingToDo"
    /\ args.dry_run
    /\ Len(users) >= 2
    /\ stdout = <<[kind |-> "found", total |-> Len(users),
                   inactive |-> 0, days |-> args.days_inactive]>>
    /\ exit_code = 0

====
